---- MODULE Spec2Model ----
(***************************************************************************)
(* Model of the geoapi application of Amsterdam/datadiensten:              *)
(*   serializers.py  GeoLocationSerializer (validate, validate_coordinates,*)
(*                   create)                                               *)
(*   views.py        DistanceFilter.filter_by_distance, GeoLocationViewSet *)
(*   models.py       GeoLocation                                           *)
(*                                                                         *)
(* Numbers stand for the floats of the program.  Coordinates are degrees,  *)
(* timestamps are instants of a discrete clock, distances are metres on    *)
(* the integer grid.  A Python dict is a function whose DOMAIN is the set  *)
(* of keys present; None is modelled by the absence of the key, by         *)
(* NoUser for a user and by NoDistance for a distance.  A JSON value that  *)
(* may be null is the set Null (null) or Some(v).                          *)
(***************************************************************************)
EXTENDS Integers, Sequences, FiniteSets, TLC

VARIABLES store,     \* the rows of the GeoLocation table
          nextId,    \* the next value of the id sequence of the table
          now,       \* the clock read by timezone.now()
          response,  \* the response of the request handled last
          accounts,  \* the ids of the users that exist
          created,   \* history: id |-> the create request that was given it
          pending    \* creates that passed validation, not yet inserted

vars == <<store, nextId, now, response, accounts, created, pending>>

(***************************************************************************)
(* Bounds of the model.                                                    *)
(***************************************************************************)
MaxCreated == 1      \* rows stored under SpecCreate
MaxRecords == 2      \* rows stored under Spec
MaxTime    == 1      \* last instant of the clock
MaxLife    == 2      \* rows created under SpecLife

(***************************************************************************)
(* Values of the model.                                                    *)
(***************************************************************************)
NoUser     == 0      \* user = None (accounts have ids 1, 2, ...)
NoDistance == -1     \* no distance attribute / distance None
Users      == {1, 2}   \* the accounts that exist
Times      == 0..MaxTime

\* degrees offered to create under SpecCreate: on a limit and one step outside
LonValues == {-181, 180}
LatValues == {-90, 91}

\* positions, centres and radii offered under Spec
ListPoints == {<<0, 0>>, <<90, 0>>, <<180, 0>>}
CentreLats == {0}
CentreLngs == {0}
Radii      == {90}

EmptyDict == <<>>

\* d.pop(k) / del d[k]
Pop(d, k) == [x \in DOMAIN d \ {k} |-> d[x]]

\* d[k] = v
Put(d, k, v) == (k :> v) @@ d

\* a dict with the key k when opt = {v}, without it when opt = {}
Entry(k, opt) == IF opt = {} THEN EmptyDict ELSE k :> (CHOOSE v \in opt : TRUE)

Optional(S) == {{}} \cup {{v} : v \in S}

\* JSON null, and a JSON value that is not null
Null    == {}
Some(v) == {v}

(***************************************************************************)
(* serializers.py                                                          *)
(***************************************************************************)
Ok(v)    == [ok |-> TRUE, value |-> v, error |-> ""]
Raise(e) == [ok |-> FALSE, value |-> EmptyDict, error |-> e]

ValidationError == "ValidationError"

\* a message: its text and the value formatted into it, if any
Message(text, got) == [text |-> text, got |-> got]

\* validate_coordinates with the bounds of the two ranges excluded
validate_coordinates_message_open(value) ==
    IF Len(value) # 2
    THEN Message("Coordinates must be [longitude, latitude]", Null)
    ELSE LET longitude == value[1]
             latitude  == value[2]
         IN  IF ~(-90 < latitude /\ latitude < 90)
             THEN Message("Latitude must be between -90 and 90, got ",
                          Some(latitude))
             ELSE IF ~(-180 < longitude /\ longitude < 180)
                  THEN Message("Longitude must be between -180 and 180, got ",
                               Some(longitude))
                  ELSE Message("", Null)

\* GeoLocationSerializer.validate_coordinates: the message of the
\* ValidationError it raises, the empty text when it returns the value
validate_coordinates_message(value) ==
    IF Len(value) # 2
    THEN Message("Coordinates must be [longitude, latitude]", Null)
    ELSE LET longitude == value[1]
             latitude  == value[2]
         IN  IF ~(-90 <= latitude /\ latitude <= 90)
             THEN Message("Latitude must be between -90 and 90, got ",
                          Some(latitude))
             ELSE IF ~(-180 <= longitude /\ longitude <= 180)
                  THEN Message("Longitude must be between -180 and 180, got ",
                               Some(longitude))
                  ELSE Message("", Null)

validate_coordinates(value) ==
    IF validate_coordinates_message(value).text = ""
    THEN Ok(value)
    ELSE Raise(ValidationError)

\* validate with the separate fields taking precedence over the pair
validate_prefers_fields(data) ==
    LET hasCoordinates == "coordinates" \in DOMAIN data
        hasLongitude   == "longitude" \in DOMAIN data
        hasLatitude    == "latitude" \in DOMAIN data
    IN  IF ~hasCoordinates /\ (~hasLongitude \/ ~hasLatitude)
        THEN Raise(ValidationError)
        ELSE IF hasLongitude /\ hasLatitude
             THEN Ok(Pop(Pop(Put(data, "coordinates",
                                 <<data["longitude"], data["latitude"]>>),
                             "longitude"), "latitude"))
             ELSE Ok(Pop(Pop(data, "longitude"), "latitude"))

\* validate with a missing separate field read as 0 instead of refused
validate_lenient(data) ==
    LET hasCoordinates == "coordinates" \in DOMAIN data
        longitude == IF "longitude" \in DOMAIN data THEN data["longitude"] ELSE 0
        latitude  == IF "latitude" \in DOMAIN data THEN data["latitude"] ELSE 0
    IN  IF hasCoordinates
        THEN Ok(Pop(Pop(data, "longitude"), "latitude"))
        ELSE Ok(Pop(Pop(Put(data, "coordinates", <<longitude, latitude>>),
                        "longitude"), "latitude"))

\* validate building the pair with the latitude first
validate_latlon(data) ==
    LET hasCoordinates == "coordinates" \in DOMAIN data
        hasLongitude   == "longitude" \in DOMAIN data
        hasLatitude    == "latitude" \in DOMAIN data
    IN  IF ~hasCoordinates /\ (~hasLongitude \/ ~hasLatitude)
        THEN Raise(ValidationError)
        ELSE IF hasCoordinates
             THEN Ok(Pop(Pop(data, "longitude"), "latitude"))
             ELSE Ok(Pop(Pop(Put(data, "coordinates",
                                 <<data["latitude"], data["longitude"]>>),
                             "longitude"), "latitude"))

\* GeoLocationSerializer.validate
validate(data) ==
    LET hasCoordinates == "coordinates" \in DOMAIN data
        hasLongitude   == "longitude" \in DOMAIN data
        hasLatitude    == "latitude" \in DOMAIN data
    IN  IF ~hasCoordinates /\ (~hasLongitude \/ ~hasLatitude)
        THEN Raise(ValidationError)
        ELSE IF hasCoordinates
             THEN Ok(Pop(Pop(data, "longitude"), "latitude"))
             ELSE Ok(Pop(Pop(Put(data, "coordinates",
                                 <<data["longitude"], data["latitude"]>>),
                             "longitude"), "latitude"))

\* read_only_fields without the user
read_only_fields_id == {"id", "distance"}

\* Meta.read_only_fields
read_only_fields == {"id", "distance", "user"}

\* the declared fields with the read-only fields taken from the request
run_field_validation_writable(data) ==
    IF "coordinates" \in DOMAIN data
       /\ ~validate_coordinates(data["coordinates"]).ok
    THEN Raise(ValidationError)
    ELSE Ok(data)

\* The declared fields of the serializer: every field is optional, and the
\* field-level validator validate_coordinates runs on the coordinates field
\* only, and only when the request carries it.  A read-only field of the
\* request is left out of the validated data.
run_field_validation(data) ==
    IF "coordinates" \in DOMAIN data
       /\ ~validate_coordinates(data["coordinates"]).ok
    THEN Raise(ValidationError)
    ELSE Ok([k \in DOMAIN data \ read_only_fields |-> data[k]])

\* serializer.is_valid(raise_exception=True): the fields, then validate
is_valid(data) ==
    LET fields == run_field_validation(data)
    IN  IF fields.ok THEN validate(fields.value) ELSE fields

\* create with the time of the call stored whatever the client supplied
create_now(validated_data, id, clock) ==
    LET coordinates == validated_data["coordinates"]
        user        == IF "user" \in DOMAIN validated_data
                       THEN validated_data["user"]
                       ELSE NoUser
    IN  [id |-> id, location |-> <<coordinates[1], coordinates[2]>>,
         timestamp |-> clock, user |-> user]

\* create with the default timestamp counted down from the clock
create_countdown(validated_data, id, clock) ==
    LET coordinates == validated_data["coordinates"]
        timestamp   == IF "timestamp" \in DOMAIN validated_data
                       THEN validated_data["timestamp"]
                       ELSE 0 - clock
        user        == IF "user" \in DOMAIN validated_data
                       THEN validated_data["user"]
                       ELSE NoUser
    IN  [id |-> id, location |-> <<coordinates[1], coordinates[2]>>,
         timestamp |-> timestamp, user |-> user]

\* GeoLocationSerializer.create: the row handed to GeoLocation.objects.create
\* (the instance it returns carries the point as given, whatever its range)
create(validated_data, id, clock) ==
    LET coordinates == validated_data["coordinates"]
        longitude   == coordinates[1]
        latitude    == coordinates[2]
        point       == <<longitude, latitude>>
        timestamp   == IF "timestamp" \in DOMAIN validated_data
                       THEN validated_data["timestamp"]
                       ELSE clock
        user        == IF "user" \in DOMAIN validated_data
                       THEN validated_data["user"]
                       ELSE NoUser
    IN  [id |-> id, location |-> point, timestamp |-> timestamp, user |-> user]

\* the row of the user table behind a user id
User(id) ==
    [id |-> id,
     username |-> IF id = 1 THEN "user1" ELSE "user2",
     password |-> IF id = 1 THEN "password1" ELSE "password2",
     email    |-> IF id = 1 THEN "user1@example.com" ELSE "user2@example.com"]

\* UserSerializer.Meta.fields
UserSerializerFields == {"id", "username"}

\* a UserSerializer with fields = '__all__'
UserSerializer_all(user) == user

\* UserSerializer: the representation of a user
UserSerializer(user) == [f \in UserSerializerFields |-> user[f]]

\* get_distance testing the distance for truth: None for a distance of 0
get_distance_truthy(obj) ==
    IF obj.distance # NoDistance /\ obj.distance # 0
    THEN Some(obj.distance)
    ELSE Null

\* GeoLocationSerializer.get_distance: None without a distance attribute
get_distance(obj) ==
    IF obj.distance # NoDistance THEN Some(obj.distance) ELSE Null

\* to_representation with the latitude put first
to_representation_latlon(instance) ==
    [id          |-> instance.id,
     timestamp   |-> instance.timestamp,
     distance    |-> get_distance(instance),
     user        |-> IF instance.user = NoUser
                     THEN Null
                     ELSE Some(UserSerializer(User(instance.user))),
     coordinates |-> <<instance.location[2], instance.location[1]>>]

\* GeoLocationSerializer.to_representation: the read fields of Meta.fields
\* (coordinates, longitude, latitude are write-only), then coordinates
to_representation(instance) ==
    [id          |-> instance.id,
     timestamp   |-> instance.timestamp,
     distance    |-> get_distance(instance),
     user        |-> IF instance.user = NoUser
                     THEN Null
                     ELSE Some(UserSerializer(User(instance.user))),
     coordinates |-> <<instance.location[1], instance.location[2]>>]

(***************************************************************************)
(* views.py                                                                *)
(***************************************************************************)
\* perform_create that never passes the caller to save()
perform_create_anonymous(validated_data, request_user) == validated_data

\* GeoLocationViewSet.perform_create: the data serializer.save() creates from
perform_create(validated_data, request_user) ==
    IF request_user # NoUser
    THEN Put(validated_data, "user", request_user)
    ELSE validated_data

\* GeoLocation.objects.all(): the rows of the table as a queryset.  A
\* queryset is the set of its rows, each with the distance attribute of its
\* annotation (NoDistance without one), and the order_by in force.
Instance(row, distance) ==
    [id |-> row.id, location |-> row.location, timestamp |-> row.timestamp,
     user |-> row.user, distance |-> distance]

Queryset(rows, ordering, annotated) ==
    [rows |-> rows, ordering |-> ordering, annotated |-> annotated]

\* the queryset of the view with the oldest row first
queryset_oldest == Queryset({Instance(row, NoDistance) : row \in store},
                            "timestamp", FALSE)

\* GeoLocationViewSet.queryset
queryset == Queryset({Instance(row, NoDistance) : row \in store},
                     "-timestamp", FALSE)

Abs(n) == IF n < 0 THEN -n ELSE n

\* Distance('location', point): metres between two positions of the grid
Distance(location, point) ==
    Abs(location[1] - point[1]) + Abs(location[2] - point[2])

\* filter_by_distance with an open boundary (distance_lt)
filter_by_distance_open(qs, data) ==
    IF "lat" \in DOMAIN data /\ "lng" \in DOMAIN data
       /\ "distance" \in DOMAIN data
    THEN LET point == <<data["lng"], data["lat"]>>
         IN  Queryset({Instance(row, Distance(row.location, point)) :
                         row \in {r \in qs.rows :
                                    Distance(r.location, point) < data["distance"]}},
                      "distance", TRUE)
    ELSE qs

\* filter_by_distance triggered by lat and lng alone, the radius read as 0
\* when the request has none
filter_by_distance_partial(qs, data) ==
    IF "lat" \in DOMAIN data /\ "lng" \in DOMAIN data
    THEN LET point    == <<data["lng"], data["lat"]>>
             distance == IF "distance" \in DOMAIN data
                         THEN data["distance"] ELSE 0
         IN  Queryset({Instance(row, Distance(row.location, point)) :
                         row \in {r \in qs.rows :
                                    Distance(r.location, point) <= distance}},
                      "distance", TRUE)
    ELSE qs

\* filter_by_distance adding the distance to the annotation already there
filter_by_distance_adding(qs, data) ==
    IF "lat" \in DOMAIN data /\ "lng" \in DOMAIN data
       /\ "distance" \in DOMAIN data
    THEN LET point == <<data["lng"], data["lat"]>>
         IN  Queryset({Instance(row, Distance(row.location, point)
                                      + (IF row.distance = NoDistance
                                         THEN 0 ELSE row.distance)) :
                         row \in {r \in qs.rows :
                                    Distance(r.location, point)
                                       <= data["distance"]}},
                      "distance", TRUE)
    ELSE qs

\* DistanceFilter.filter_by_distance; data is the query string
filter_by_distance(qs, data) ==
    IF "lat" \in DOMAIN data /\ "lng" \in DOMAIN data
       /\ "distance" \in DOMAIN data
    THEN LET lat      == data["lat"]
             lng      == data["lng"]
             distance == data["distance"]
             point    == <<lng, lat>>
         IN  Queryset({Instance(row, Distance(row.location, point)) :
                         row \in {r \in qs.rows :
                                    Distance(r.location, point) <= distance}},
                      "distance", TRUE)
    ELSE qs

\* the owner filter letting rows without owner through
filter_user_or_null(qs, value) ==
    Queryset({row \in qs.rows : row.user = NoUser \/ row.user = value},
             qs.ordering, qs.annotated)

\* DistanceFilter.user: filter(user__id=value)
filter_user(qs, value) ==
    Queryset({row \in qs.rows : row.user # NoUser /\ row.user = value},
             qs.ordering, qs.annotated)

\* one declared filter of DistanceFilter, skipped when the query string
\* does not carry its parameter
ApplyFilter(qs, name, data) ==
    IF name \notin DOMAIN data
    THEN qs
    ELSE IF name = "user"
         THEN filter_user(qs, data["user"])
         ELSE filter_by_distance(qs, data)

\* DjangoFilterBackend with filterset_class = DistanceFilter: the declared
\* filters lat, lng, distance, user, in that order
DistanceFilter(qs, data) ==
    ApplyFilter(ApplyFilter(ApplyFilter(ApplyFilter(qs, "lat", data),
                                        "lng", data),
                            "distance", data),
                "user", data)

ordering_fields == {"timestamp", "distance"}

\* the field an ordering term names, its "-" prefix removed
OrderingField(term) ==
    CASE term \in {"timestamp", "-timestamp"} -> "timestamp"
      [] term \in {"distance", "-distance"}   -> "distance"
      [] OTHER                                -> term

\* OrderingFilter that leaves the order of the filtered queryset alone
OrderingFilter_ignored(qs, data) == qs

\* OrderingFilter: order_by(ordering) when the query string names one of
\* ordering_fields (with or without "-"); the view sets no default ordering
OrderingFilter(qs, data) ==
    IF "ordering" \in DOMAIN data
       /\ OrderingField(data["ordering"]) \in ordering_fields
    THEN Queryset(qs.rows, data["ordering"], qs.annotated)
    ELSE qs

\* the sort key of a row under an order_by
OrderKey(row, ordering) ==
    CASE ordering = "timestamp"  -> row.timestamp
      [] ordering = "-timestamp" -> 0 - row.timestamp
      [] ordering = "distance"   -> row.distance
      [] ordering = "-distance"  -> 0 - row.distance

\* order_by("distance") needs the annotation: FieldError without it
CanEvaluate(qs) ==
    qs.ordering \in {"distance", "-distance"} => qs.annotated

\* the sequences the database may return for a queryset: its rows sorted on
\* the order_by, rows of equal key in any order
Evaluate(qs) ==
    LET n == Cardinality(qs.rows)
    IN  { s \in [1..n -> qs.rows] :
            /\ \A i, j \in 1..n : i # j => s[i] # s[j]
            /\ \A i, j \in 1..n :
                 i < j => OrderKey(s[i], qs.ordering) <= OrderKey(s[j], qs.ordering) }

NoResponse == [op |-> "none"]

\* the representation of each row of a page of results
Representations(results) ==
    [i \in 1..Len(results) |-> to_representation(results[i])]

\* the except clauses with a validation error answered as a client error
ErrorStatus_client(exception) ==
    IF exception \in {"ValueError", "TypeError", "ValidationError"}
    THEN 400
    ELSE 500

\* GeoLocationViewSet.create, the except clauses: ValueError and TypeError
\* answer 400, every other exception answers 500
ErrorStatus(exception) ==
    IF exception \in {"ValueError", "TypeError"} THEN 400 ELSE 500

\* the body of the error response of GeoLocationViewSet.create
ErrorData(exception) ==
    IF exception \in {"ValueError", "TypeError"}
    THEN "error" :> <<"Invalid data format: ", exception>>
    ELSE "error" :> <<"An error occurred: ", exception>>

\* the response of DRF's exception handler to an exception of a handler
\* that catches none: a client error with the detail of the exception
ExceptionStatus(exception) ==
    CASE exception = "Http404"         -> 404
      [] exception = "ValidationError" -> 400
      [] exception = "ParseError"      -> 400
      [] OTHER                         -> 500

ExceptionData(exception) == "detail" :> exception

\* the id column with the id taken as one more than the largest id stored
AutoId_max(rows, sequence) ==
    IF rows = {}
    THEN 1
    ELSE (CHOOSE id \in {row.id : row \in rows} :
             \A row \in rows : row.id <= id) + 1

\* id = BigAutoField(primary_key=True): the database gives the row the
\* next value of the sequence of the table, whatever rows it holds
AutoId(rows, sequence) == sequence

\* an INSERT that replaces the rows of the same user
objects_create_latest(rows, instance) ==
    {row \in rows : row.user # instance.user} \cup {instance}

\* GeoLocation.objects.create: one INSERT into the table
objects_create(rows, instance) == rows \cup {instance}

\* the row of the table behind an instance
Row(instance) ==
    [id |-> instance.id, location |-> instance.location,
     timestamp |-> instance.timestamp, user |-> instance.user]

\* GenericAPIView.get_object: the row with that pk in the filtered
\* queryset, Http404 when it has none
get_object(pk, data) ==
    LET qs == OrderingFilter(DistanceFilter(queryset, data), data)
    IN  IF ~CanEvaluate(qs)
        THEN Raise("FieldError")
        ELSE IF \E instance \in qs.rows : instance.id = pk
             THEN Ok(CHOOSE instance \in qs.rows : instance.id = pk)
             ELSE Raise("Http404")

\* an update that writes the coordinates sent to the location
update_location(instance, validated_data) ==
    [instance EXCEPT !.timestamp = IF "timestamp" \in DOMAIN validated_data
                                   THEN validated_data["timestamp"]
                                   ELSE @,
                     !.user      = IF "user" \in DOMAIN validated_data
                                   THEN validated_data["user"]
                                   ELSE @,
                     !.location  = IF "coordinates" \in DOMAIN validated_data
                                   THEN <<validated_data["coordinates"][1],
                                          validated_data["coordinates"][2]>>
                                   ELSE @]

\* ModelSerializer.update: setattr for each item of validated_data, then
\* save(); coordinates is no field of the model, so save() writes the
\* other items (timestamp, user) and leaves the location alone
update(instance, validated_data) ==
    [instance EXCEPT !.timestamp = IF "timestamp" \in DOMAIN validated_data
                                   THEN validated_data["timestamp"]
                                   ELSE @,
                     !.user      = IF "user" \in DOMAIN validated_data
                                   THEN validated_data["user"]
                                   ELSE @]

\* on_delete=models.CASCADE: the rows of the deleted user go with it
CASCADE(rows, user) == {row \in rows : row.user # user}

\* on_delete=models.SET_NULL: the rows after a user was deleted
SET_NULL(rows, user) ==
    { IF row.user = user THEN [row EXCEPT !.user = NoUser] ELSE row :
        row \in rows }

\* request.data: the parsed body, ParseError when the body is not JSON
ParseError == "ParseError"

request_data(request) ==
    IF request.parsed THEN Ok(request.body) ELSE Raise(ParseError)

\* GET /locations/ : filter_backends = [DjangoFilterBackend, OrderingFilter]
List(data) ==
    /\ response.op = "none"
    /\ LET qs == OrderingFilter(DistanceFilter(queryset, data), data)
       IN  IF CanEvaluate(qs)
           THEN \E results \in Evaluate(qs) :
                    response' = [op |-> "list", request |-> data,
                                 status |-> 200, error |-> "",
                                 results |-> results,
                                 data |-> Representations(results)]
           ELSE response' = [op |-> "list", request |-> data,
                             status |-> 500, error |-> "FieldError",
                             results |-> <<>>, data |-> <<>>]
    /\ UNCHANGED <<store, nextId, now, accounts, created, pending>>

\* POST /locations/ : GeoLocationViewSet.create
Create(request) ==
    /\ response.op = "none"
    /\ request.user \in accounts \cup {NoUser}
    /\ LET parsed     == request_data(request)
           serializer == IF parsed.ok THEN is_valid(parsed.value) ELSE parsed
       IN  IF serializer.ok
           THEN LET instance == create(perform_create(serializer.value,
                                                      request.user),
                                       AutoId(store, nextId), now)
                IN  /\ store' = objects_create(store, instance)
                    /\ nextId' = nextId + 1
                    /\ created' = Put(created, instance.id, request)
                    /\ response' = [op |-> "create", request |-> request,
                                    status |-> 201, error |-> "",
                                    id |-> instance.id,
                                    data |-> to_representation(
                                                Instance(instance, NoDistance))]
           ELSE /\ response' = [op |-> "create", request |-> request,
                                status |-> ErrorStatus(serializer.error),
                                error |-> serializer.error,
                                id |-> 0,
                                data |-> ErrorData(serializer.error)]
                /\ UNCHANGED <<store, nextId, created>>
    /\ UNCHANGED <<now, accounts, pending>>

\* POST /locations/ up to the INSERT, for requests handled at once: the
\* body is parsed and validated and the clock is read; a failure answers
CreateBegin(request) ==
    /\ response.op = "none"
    /\ request.user \in accounts \cup {NoUser}
    /\ \A p \in pending : p.request # request
    /\ LET parsed     == request_data(request)
           serializer == IF parsed.ok THEN is_valid(parsed.value) ELSE parsed
       IN  IF serializer.ok
           THEN /\ pending' = pending \cup
                                {[request |-> request,
                                  validated_data |->
                                      perform_create(serializer.value,
                                                     request.user),
                                  clock |-> now]}
                /\ UNCHANGED response
           ELSE /\ response' = [op |-> "create", request |-> request,
                                status |-> ErrorStatus(serializer.error),
                                error |-> serializer.error,
                                id |-> 0,
                                data |-> ErrorData(serializer.error)]
                /\ UNCHANGED pending
    /\ UNCHANGED <<store, nextId, now, accounts, created>>

\* POST /locations/ from the INSERT on: the database gives the row its id
CreateCommit(p) ==
    /\ response.op = "none"
    /\ p \in pending
    /\ LET instance == create(p.validated_data, AutoId(store, nextId), p.clock)
       IN  /\ store' = objects_create(store, instance)
           /\ nextId' = nextId + 1
           /\ created' = Put(created, instance.id, p.request)
           /\ pending' = pending \ {p}
           /\ response' = [op |-> "create", request |-> p.request,
                           status |-> 201, error |-> "",
                           id |-> instance.id,
                           data |-> to_representation(
                                       Instance(instance, NoDistance))]
    /\ UNCHANGED <<now, accounts>>

\* GET /locations/{id}/: RetrieveModelMixin.retrieve
Retrieve(pk, data) ==
    /\ response.op = "none"
    /\ LET request == [pk |-> pk, data |-> data]
           found   == get_object(pk, data)
       IN  IF found.ok
           THEN response' = [op |-> "retrieve", request |-> request,
                             status |-> 200, error |-> "",
                             data |-> to_representation(found.value)]
           ELSE response' = [op |-> "retrieve", request |-> request,
                             status |-> ExceptionStatus(found.error),
                             error |-> found.error,
                             data |-> ExceptionData(found.error)]
    /\ UNCHANGED <<store, nextId, now, accounts, created, pending>>

\* PUT and PATCH /locations/{id}/: UpdateModelMixin.update (the two differ
\* in the partial flag only, and no field of the serializer is required)
Update(pk, request) ==
    /\ response.op = "none"
    /\ request.user \in accounts \cup {NoUser}
    /\ LET found      == get_object(pk, EmptyDict)
           parsed     == request_data(request)
           serializer == IF parsed.ok THEN is_valid(parsed.value) ELSE parsed
           failure    == IF ~found.ok THEN found.error ELSE serializer.error
       IN  IF found.ok /\ serializer.ok
           THEN LET instance == update(found.value, serializer.value)
                IN  /\ store' = (store \ {Row(found.value)}) \cup {Row(instance)}
                    /\ response' = [op |-> "update", pk |-> pk,
                                    request |-> request,
                                    status |-> 200, error |-> "",
                                    data |-> to_representation(instance)]
           ELSE /\ response' = [op |-> "update", pk |-> pk,
                                request |-> request,
                                status |-> ExceptionStatus(failure),
                                error |-> failure,
                                data |-> ExceptionData(failure)]
                /\ UNCHANGED store
    /\ UNCHANGED <<nextId, now, accounts, created, pending>>

\* DELETE /locations/{id}/: DestroyModelMixin.destroy
Destroy(pk) ==
    /\ response.op = "none"
    /\ LET found == get_object(pk, EmptyDict)
       IN  IF found.ok
           THEN /\ store' = store \ {Row(found.value)}
                /\ response' = [op |-> "destroy", pk |-> pk,
                                status |-> 204, error |-> "",
                                data |-> EmptyDict]
           ELSE /\ response' = [op |-> "destroy", pk |-> pk,
                                status |-> ExceptionStatus(found.error),
                                error |-> found.error,
                                data |-> ExceptionData(found.error)]
                /\ UNCHANGED store
    /\ UNCHANGED <<nextId, now, accounts, created, pending>>

\* a user is deleted (outside the API): the rows that refer to it are kept,
\* their user set to NULL
DeleteUser(user) ==
    /\ response.op = "none"
    /\ user \in accounts
    /\ accounts' = accounts \ {user}
    /\ store' = SET_NULL(store, user)
    /\ UNCHANGED <<nextId, now, response, created, pending>>

\* serializer.validate_coordinates(value) called on its own
ValidateCoordinates(value) ==
    /\ response.op = "none"
    /\ response' = [op |-> "validate_coordinates", request |-> value,
                    result |-> validate_coordinates(value),
                    message |-> validate_coordinates_message(value)]
    /\ UNCHANGED <<store, nextId, now, accounts, created, pending>>

\* serializer.validate(data) called on its own
Validate(data) ==
    /\ response.op = "none"
    /\ response' = [op |-> "validate", request |-> data,
                    result |-> validate(data)]
    /\ UNCHANGED <<store, nextId, now, accounts, created, pending>>

\* the clock advances between two requests
Tick ==
    /\ response.op = "none"
    /\ now < MaxTime
    /\ now' = now + 1
    /\ UNCHANGED <<store, nextId, response, accounts, created, pending>>

\* the client receives the response; the next request can be sent
Deliver ==
    /\ response.op # "none"
    /\ response' = NoResponse
    /\ UNCHANGED <<store, nextId, now, accounts, created, pending>>

(***************************************************************************)
(* Requests                                                                *)
(***************************************************************************)
Body(c, lo, la, t) ==
    Entry("coordinates", c) @@ Entry("longitude", lo)
        @@ Entry("latitude", la) @@ Entry("timestamp", t)

Callers == {NoUser} \cup Users

\* every input shape, on the degrees of LonValues and LatValues
CreateRequests ==
    { [body |-> Body(c, lo, la, t), user |-> u, parsed |-> TRUE] :
        c \in Optional(LonValues \X LatValues), lo \in Optional(LonValues),
        la \in Optional(LatValues), t \in Optional(Times), u \in Callers }

\* a body that names a user
OwnerRequests ==
    { [body |-> Body({<<180, -90>>}, {}, {}, {}) @@ ("user" :> v),
       user |-> u, parsed |-> TRUE] :
        v \in Users, u \in Callers }

\* a body that is not JSON
MalformedRequests ==
    { [body |-> EmptyDict, user |-> u, parsed |-> FALSE] : u \in Callers }

\* valid positions as a pair, stamped with the time of the call
SeedRequests ==
    { [body |-> Body({c}, {}, {}, {}), user |-> u, parsed |-> TRUE] :
        c \in ListPoints, u \in Callers }

Query(la, ln, d, u, o) ==
    Entry("lat", la) @@ Entry("lng", ln) @@ Entry("distance", d)
        @@ Entry("user", u) @@ Entry("ordering", o)

ListRequests ==
    { Query(la, ln, d, u, o) :
        la \in Optional(CentreLats), ln \in Optional(CentreLngs),
        d \in Optional(Radii), u \in Optional(Users),
        o \in Optional({"timestamp", "-timestamp", "distance"}) }

Init ==
    /\ store = {}
    /\ nextId = 1
    /\ now = 0
    /\ response = NoResponse
    /\ accounts = Users
    /\ created = EmptyDict
    /\ pending = {}

\* the endpoint, rows created from valid positions
Next ==
    \/ (Cardinality(store) < MaxRecords /\ \E request \in SeedRequests : Create(request))
    \/ \E data \in ListRequests : List(data)
    \/ Tick
    \/ Deliver

Spec == Init /\ [][Next]_vars

\* create alone, offered every input shape
NextCreate ==
    \/ (Cardinality(store) < MaxCreated
        /\ \E request \in CreateRequests \cup MalformedRequests \cup OwnerRequests :
              Create(request))
    \/ Tick
    \/ Deliver

SpecCreate == Init /\ [][NextCreate]_vars

\* the life of the rows: create, retrieve, list, update, delete, and the
\* deletion of users
LifePoints == {<<0, 0>>, <<180, 0>>}

LifeRequests ==
    { [body |-> Body({<<0, 0>>}, {}, {}, {}), user |-> u, parsed |-> TRUE] :
        u \in Callers }
    \cup { [body |-> Body({}, {180}, {0}, {}), user |-> u, parsed |-> TRUE] :
             u \in Callers }
    \cup { [body |-> Body({<<-181, -90>>}, {}, {}, {}), user |-> NoUser,
            parsed |-> TRUE],
           [body |-> EmptyDict, user |-> NoUser, parsed |-> FALSE] }

UpdateRequests ==
    { [body |-> Body({<<90, 0>>}, {}, {}, t), user |-> u, parsed |-> TRUE] :
        t \in Optional({1}), u \in {NoUser, 2} }
    \cup { [body |-> Body({<<90, 0>>}, {}, {}, {}) @@ ("user" :> 2),
            user |-> NoUser, parsed |-> TRUE],
           [body |-> Body({}, {}, {}, {1}), user |-> NoUser, parsed |-> TRUE],
           [body |-> EmptyDict, user |-> NoUser, parsed |-> FALSE] }

Pks == 1..(MaxLife + 1)

RetrieveQueries ==
    { EmptyDict, Query({}, {}, {}, {1}, {}), Query({0}, {0}, {90}, {}, {}) }

LifeListRequests == { EmptyDict, Query({0}, {0}, {90}, {}, {}) }

NextLife ==
    \/ (nextId <= MaxLife /\ \E request \in LifeRequests : Create(request))
    \/ \E pk \in Pks, data \in RetrieveQueries : Retrieve(pk, data)
    \/ \E data \in LifeListRequests : List(data)
    \/ \E pk \in Pks, request \in UpdateRequests : Update(pk, request)
    \/ \E pk \in Pks : Destroy(pk)
    \/ \E user \in Users : DeleteUser(user)
    \/ Deliver

SpecLife == Init /\ [][NextLife]_vars

\* creates handled at once, with deletions and updates between them
ConcurrentRequests ==
    { [body |-> Body({<<0, 0>>}, {}, {}, {}), user |-> u, parsed |-> TRUE] :
        u \in {NoUser, 1} }
    \cup { [body |-> EmptyDict, user |-> NoUser, parsed |-> FALSE] }

NextConcurrent ==
    \/ (nextId + Cardinality(pending) <= MaxLife
        /\ \E request \in ConcurrentRequests : CreateBegin(request))
    \/ \E p \in pending : CreateCommit(p)
    \/ \E pk \in Pks, request \in UpdateRequests : Update(pk, request)
    \/ \E pk \in Pks : Destroy(pk)
    \/ Tick
    \/ Deliver

SpecConcurrent == Init /\ [][NextConcurrent]_vars

\* the validators of the serializer called on their own
Longitudes == {-181, -180, -179, -91, -90, 0, 90, 91, 179, 180, 181}
Latitudes  == {-181, -91, -90, -89, 0, 89, 90, 91, 180, 181}

SerializerData ==
    { Body(c, lo, la, t) :
        c \in Optional({<<10, 20>>}), lo \in Optional({30, -181}),
        la \in Optional({40, 91}), t \in Optional({1}) }

NextSerializer ==
    \/ \E value \in Longitudes \X Latitudes : ValidateCoordinates(value)
    \/ \E data \in SerializerData : Validate(data)
    \/ Deliver

SpecSerializer == Init /\ [][NextSerializer]_vars

(***************************************************************************)
(* Vocabulary of the properties                                            *)
(***************************************************************************)
InRange(pair) ==
    /\ -180 <= pair[1] /\ pair[1] <= 180
    /\ -90 <= pair[2] /\ pair[2] <= 90

HasPair(body)   == "coordinates" \in DOMAIN body
HasFields(body) == {"longitude", "latitude"} \subseteq DOMAIN body

\* the position a create request asks for: the pair, else the two fields
SubmittedPair(body) ==
    IF HasPair(body)
    THEN body["coordinates"]
    ELSE <<body["longitude"], body["latitude"]>>

CreateDone  == response.op = "create"
CreateOk    == response.op = "create" /\ response.status = 201
CreatedRow  == CHOOSE row \in store : row.id = response.id
ListOk      == response.op = "list" /\ response.status = 200

\* a create request has just been handled in this step
CreateStep  == response.op = "none" /\ response'.op = "create"

RadiusAsked(data) == {"lat", "lng", "distance"} \subseteq DOMAIN data
Centre(data)      == <<data["lng"], data["lat"]>>

\* the stored rows a list request asks for
Wanted(data) ==
    { row \in store :
        /\ RadiusAsked(data) =>
             Distance(row.location, Centre(data)) <= data["distance"]
        /\ "user" \in DOMAIN data => row.user = data["user"] }

ResultIds(results) == {results[i].id : i \in 1..Len(results)}

\* the results are the rows of S, each once, with the fields stored
ExactlyRows(results, S) ==
    /\ Len(results) = Cardinality(S)
    /\ ResultIds(results) = {row.id : row \in S}
    /\ \A i \in 1..Len(results) :
         \E row \in S :
            /\ row.id = results[i].id
            /\ row.location = results[i].location
            /\ row.timestamp = results[i].timestamp
            /\ row.user = results[i].user

AscendingDistance(results) ==
    \A i, j \in 1..Len(results) :
        i < j => results[i].distance <= results[j].distance

AscendingTimestamp(results) ==
    \A i, j \in 1..Len(results) :
        i < j => results[i].timestamp <= results[j].timestamp

DescendingTimestamp(results) ==
    \A i, j \in 1..Len(results) :
        i < j => results[i].timestamp >= results[j].timestamp

(***************************************************************************)
(* C1: a create whose latitude is outside [-90,90] or whose longitude is   *)
(* outside [-180,180], submitted as the pair or as the two separate        *)
(* fields, fails with a validation error and stores no record.             *)
(***************************************************************************)
C1_OutOfRangeCreateFails ==
    [][(/\ CreateStep
        /\ HasPair(response'.request.body) \/ HasFields(response'.request.body)
        /\ ~InRange(SubmittedPair(response'.request.body)))
       => (response'.error = ValidationError /\ store' = store)]_vars

(***************************************************************************)
(* C2: every persisted record has its longitude in [-180,180] and its      *)
(* latitude in [-90,90], whatever create requests were handled.            *)
(***************************************************************************)
C2_StoredInRange ==
    \A row \in store : InRange(row.location)

C4_MissingParameter ==
    (/\ ListOk
     /\ ~RadiusAsked(response.request)
     /\ "ordering" \notin DOMAIN response.request)
    => /\ filter_by_distance(queryset, response.request) = queryset
       /\ ExactlyRows(response.results, Wanted(response.request))
       /\ DescendingTimestamp(response.results)
       /\ \A i \in 1..Len(response.results) :
            response.results[i].distance = NoDistance

C4_Witness ==
    /\ ListOk
    /\ DOMAIN response.request = {"lat", "lng"}
    /\ Len(response.results) = 2
    /\ response.results[1].timestamp > response.results[2].timestamp
    /\ Distance(response.results[1].location, Centre(response.request))
         > Distance(response.results[2].location, Centre(response.request))

C6_OwnerIsCaller ==
    CreateOk
    => /\ \E row \in store : row.id = response.id
       /\ CreatedRow.user = response.request.user

C6_Witness ==
    /\ CreateOk
    /\ response.request.user # NoUser
    /\ CreatedRow.user = response.request.user

(***************************************************************************)
(* C7: filtering by owner id u returns exactly the records owned by u;     *)
(* with the radius filter the result is the records satisfying both, by    *)
(* distance ascending, whichever of the two filters is applied first.      *)
(***************************************************************************)
C7_OwnerFilter ==
    (/\ ListOk
     /\ "user" \in DOMAIN response.request
     /\ "ordering" \notin DOMAIN response.request)
    => /\ ExactlyRows(response.results, Wanted(response.request))
       /\ \A i \in 1..Len(response.results) :
            response.results[i].user = response.request["user"]
       /\ RadiusAsked(response.request)
            => AscendingDistance(response.results)
       /\ filter_user(filter_by_distance(queryset, response.request),
                      response.request["user"])
            = filter_by_distance(filter_user(queryset, response.request["user"]),
                                 response.request)

C7_Witness ==
    /\ ListOk
    /\ RadiusAsked(response.request)
    /\ "user" \in DOMAIN response.request
    /\ "ordering" \notin DOMAIN response.request
    /\ Len(response.results) = 1
    /\ \E row \in store :
          /\ row.user # response.request["user"]
          /\ Distance(row.location, Centre(response.request))
               <= response.request["distance"]

(***************************************************************************)
(* C8: given both the pair and the separate fields, validate keeps the     *)
(* pair as the position, removes longitude and latitude from the data and  *)
(* raises no error, whatever the separate fields hold.                     *)
(***************************************************************************)
BothShapes(body) ==
    HasPair(body) /\ DOMAIN body \cap {"longitude", "latitude"} # {}

C8_PairTakesPrecedence ==
    (CreateDone /\ BothShapes(response.request.body))
    => /\ validate(response.request.body).ok
       /\ validate(response.request.body).value["coordinates"]
            = response.request.body["coordinates"]
       /\ DOMAIN validate(response.request.body).value
            = DOMAIN response.request.body \ {"longitude", "latitude"}
       /\ CreateOk => CreatedRow.location = response.request.body["coordinates"]

C8_Witness ==
    /\ CreateOk
    /\ HasPair(response.request.body)
    /\ HasFields(response.request.body)
    /\ ~InRange(<<response.request.body["longitude"],
                  response.request.body["latitude"]>>)
    /\ CreatedRow.location = response.request.body["coordinates"]

(***************************************************************************)
(* C9: validate raises a ValidationError whenever the pair is absent and   *)
(* longitude or latitude is absent, and then no record is created.         *)
(***************************************************************************)
C9_MissingCoordinates ==
    [][(/\ CreateStep
        /\ response'.request.parsed
        /\ ~HasPair(response'.request.body)
        /\ ~HasFields(response'.request.body))
       => /\ ~validate(response'.request.body).ok
          /\ validate(response'.request.body).error = ValidationError
          /\ response'.error = ValidationError
          /\ store' = store]_vars

C9_Witness ==
    /\ CreateDone
    /\ DOMAIN response.request.body \cap {"coordinates", "longitude", "latitude"}
         = {"longitude"}
    /\ response.error = ValidationError

(***************************************************************************)
(* C10: a create that supplies a timestamp stores exactly that timestamp;  *)
(* a create that omits it stores the time of the call.                     *)
(***************************************************************************)
C10_Timestamp ==
    CreateOk
    => /\ "timestamp" \in DOMAIN response.request.body
            => CreatedRow.timestamp = response.request.body["timestamp"]
       /\ "timestamp" \notin DOMAIN response.request.body
            => CreatedRow.timestamp = now

C10_Witness ==
    /\ CreateOk
    /\ "timestamp" \in DOMAIN response.request.body
    /\ response.request.body["timestamp"] # now
    /\ CreatedRow.timestamp = response.request.body["timestamp"]

(***************************************************************************)
(* C11: a create with an out-of-range coordinates pair, with no            *)
(* coordinates in either shape, or with a body that does not parse ends    *)
(* in the internal-error outcome (500) with a non-empty error body, never  *)
(* in a client-error (400) outcome.                                        *)
(***************************************************************************)
OutOfRangePair(request) ==
    /\ request.parsed
    /\ HasPair(request.body)
    /\ ~InRange(request.body["coordinates"])

NoCoordinates(request) ==
    /\ request.parsed
    /\ ~HasPair(request.body)
    /\ ~HasFields(request.body)

C11_InternalError ==
    (/\ CreateDone
     /\ \/ OutOfRangePair(response.request)
        \/ NoCoordinates(response.request)
        \/ ~response.request.parsed)
    => /\ response.status = 500
       /\ response.status # 400
       /\ DOMAIN response.data = {"error"}
       /\ response.data["error"] # <<>>

C11_Witness ==
    /\ CreateDone
    /\ ~response.request.parsed
    /\ response.status = 500
    /\ response.error = ParseError

(***************************************************************************)
(* C12: create is atomic: a create that ends in an error leaves the set    *)
(* of stored records exactly as it was, and a create that succeeds adds    *)
(* exactly one record and changes no stored record.                        *)
(***************************************************************************)
C12_CreateAtomic ==
    [][CreateStep
       => /\ response'.status # 201 => store' = store
          /\ response'.status = 201
               => /\ store \subseteq store'
                  /\ Cardinality(store') = Cardinality(store) + 1
                  /\ \E row \in store' \ store : row.id = response'.id]_vars

C12_Witness ==
    /\ CreateDone
    /\ response.status = 500
    /\ Cardinality(store) = 1
    /\ DOMAIN created = {1}

(***************************************************************************)
(* C13: ids are unique and never reused: whatever the order in which       *)
(* creates (also creates handled at once, and creates after deletions)     *)
(* reach the database, a created record gets an id no record had before,   *)
(* and no other request gives a record an id or changes one.               *)
(***************************************************************************)
StoredIds == {row.id : row \in store}

C13_IdsNeverReused ==
    [][/\ \A row \in store' :
            row.id \notin StoredIds
               => /\ row.id \notin DOMAIN created
                  /\ response'.op = "create"
                  /\ response'.id = row.id
       /\ \A r1, r2 \in store' : r1.id = r2.id => r1 = r2]_vars

C13_Witness ==
    /\ CreateOk
    /\ response.id = 2
    /\ pending = {}
    /\ \E row \in store : row.id = 1 /\ CreatedRow.timestamp < row.timestamp

(***************************************************************************)
(* C14: deleting a user deletes no record: the records that referred to    *)
(* the user stay stored with the same id, coordinates and timestamp and    *)
(* with no owner, and every other record is unchanged.                     *)
(***************************************************************************)
C14_UserDeletionKeepsRecords ==
    [][accounts' # accounts
       => LET user == CHOOSE u \in accounts : u \notin accounts'
          IN  /\ Cardinality(store') = Cardinality(store)
              /\ \A row \in store :
                   IF row.user = user
                   THEN \E after \in store' :
                           /\ after.id = row.id
                           /\ after.location = row.location
                           /\ after.timestamp = row.timestamp
                           /\ after.user = NoUser
                   ELSE row \in store']_vars

C14_Witness ==
    /\ Cardinality(store) = 2
    /\ \E row \in store :
          /\ created[row.id].user \notin accounts \cup {NoUser}
          /\ row.user = NoUser
    /\ \E row \in store : row.user \in accounts

(***************************************************************************)
(* C15: no request to the endpoint (list, retrieve, create, update,        *)
(* partial update) changes the owner of a stored record; the owner changes *)
(* only by being cleared when the user it refers to is deleted.            *)
(***************************************************************************)
C15_OwnerNeverChanged ==
    [][\A row \in store, after \in store' :
          after.id = row.id
             => \/ after.user = row.user
                \/ /\ after.user = NoUser
                   /\ row.user \in accounts
                   /\ row.user \notin accounts'
                   /\ response' = response]_vars

C15_Witness ==
    /\ response.op = "update"
    /\ response.status = 200
    /\ "user" \in DOMAIN response.request.body
    /\ \E row \in store :
          /\ row.id = response.pk
          /\ row.user \notin {NoUser, response.request.body["user"]}
          /\ row.user = created[row.id].user

(***************************************************************************)
(* C16: in every response that represents a record the user field is null  *)
(* when the record has no owner, and otherwise an object with exactly the  *)
(* keys id and username of the owner: no password, email or other field of *)
(* the user is in a response.                                              *)
(***************************************************************************)
\* the records represented in the response
Represented ==
    CASE response.op = "list" /\ response.status = 200
           -> {response.data[i] : i \in 1..Len(response.data)}
      [] response.op \in {"create", "retrieve", "update"}
         /\ response.status \in {200, 201}
           -> {response.data}
      [] OTHER -> {}

StoredRow(id) == CHOOSE row \in store : row.id = id

C16_UserRepresentation ==
    \A record \in Represented :
        /\ DOMAIN record = {"id", "coordinates", "timestamp", "distance", "user"}
        /\ StoredRow(record.id).user = NoUser => record.user = Null
        /\ StoredRow(record.id).user # NoUser
             => /\ Cardinality(record.user) = 1
                /\ \A user \in record.user :
                     /\ DOMAIN user = {"id", "username"}
                     /\ user.id = StoredRow(record.id).user
                     /\ user.username = User(user.id).username

C16_Witness ==
    /\ response.op = "retrieve"
    /\ response.status = 200
    /\ response.data.user = Some([id |-> 1, username |-> "user1"])

(***************************************************************************)
(* C17: round trip: a record created from a valid pair (lon, lat), sent as *)
(* coordinates or as longitude and latitude, is represented with           *)
(* coordinates [lon, lat], longitude first, in the create response and in  *)
(* every later retrieve or list.                                           *)
(***************************************************************************)
C17_RoundTrip ==
    response.op \in {"create", "retrieve", "list"}
    => \A record \in Represented :
          /\ record.id \in DOMAIN created
          /\ InRange(SubmittedPair(created[record.id].body))
               => /\ record.coordinates
                       = SubmittedPair(created[record.id].body)
                  /\ Len(record.coordinates) = 2

C17_Witness ==
    /\ response.op = "list"
    /\ response.status = 200
    /\ Len(response.data) = 2
    /\ \E i, j \in 1..2 :
          /\ HasPair(created[response.data[i].id].body)
          /\ HasFields(created[response.data[j].id].body)
          /\ response.data[j].coordinates = <<180, 0>>
          /\ response.data[i].coordinates = <<0, 0>>

(***************************************************************************)
(* C18: retrieve by id answers with the stored record of that id when      *)
(* there is one, and with not-found when no stored record has that id;     *)
(* never with another record, never with a deleted one.                    *)
(***************************************************************************)
C18_RetrieveById ==
    response.op = "retrieve"
    => IF \E row \in store : row.id = response.request.pk
       THEN /\ response.status = 200
            /\ response.data.id = response.request.pk
            /\ response.data.coordinates
                 = StoredRow(response.request.pk).location
            /\ response.data.timestamp
                 = StoredRow(response.request.pk).timestamp
       ELSE response.status = 404

\* C18 for a retrieve without query string
C18_PlainRetrieveById ==
    (response.op = "retrieve" /\ response.request.data = EmptyDict)
    => C18_RetrieveById

(***************************************************************************)
(* C19: a list request without distance-filter parameters answers with the *)
(* records newest first when it names no ordering or ordering=-timestamp,  *)
(* and oldest first when it names ordering=timestamp.                      *)
(***************************************************************************)
ListedNewestFirst ==
    \A i, j \in 1..Len(response.data) :
        i < j => response.data[i].timestamp >= response.data[j].timestamp

ListedOldestFirst ==
    \A i, j \in 1..Len(response.data) :
        i < j => response.data[i].timestamp <= response.data[j].timestamp

C19_TimestampOrdering ==
    (/\ ListOk
     /\ DOMAIN response.request \cap {"lat", "lng", "distance"} = {})
    => /\ ExactlyRows(response.results, Wanted(response.request))
       /\ Len(response.data) = Len(response.results)
       /\ "ordering" \notin DOMAIN response.request => ListedNewestFirst
       /\ ("ordering" \in DOMAIN response.request
           /\ response.request["ordering"] = "-timestamp")
            => ListedNewestFirst
       /\ ("ordering" \in DOMAIN response.request
           /\ response.request["ordering"] = "timestamp")
            => ListedOldestFirst

C19_Witness ==
    /\ ListOk
    /\ response.request = EmptyDict
    /\ Len(response.data) = 2
    /\ response.data[1].timestamp > response.data[2].timestamp
    /\ response.data[1].id > response.data[2].id

(***************************************************************************)
(* C20: the distance of a represented record is null exactly when no       *)
(* distance was computed for it (no radius filter applied), and is the     *)
(* distance of the annotation, in metres, when the radius filter was       *)
(* applied.                                                                *)
(***************************************************************************)
C20_DistanceField ==
    /\ ListOk
         => \A i \in 1..Len(response.data) :
               /\ response.data[i].id = response.results[i].id
               /\ response.data[i].distance
                    = IF RadiusAsked(response.request)
                      THEN Some(Distance(StoredRow(response.data[i].id).location,
                                         Centre(response.request)))
                      ELSE Null
    /\ CreateOk => response.data.distance = Null

C20_Witness ==
    /\ ListOk
    /\ RadiusAsked(response.request)
    /\ Len(response.data) = 2
    /\ response.data[1].distance = Some(0)
    /\ response.data[2].distance = Some(90)

(***************************************************************************)
(* C21: of two successful creates that omit the timestamp and are handled  *)
(* one after the other, the later stores a timestamp greater than or equal *)
(* to the one the earlier stored.                                          *)
(***************************************************************************)
OmitsTimestamp(id) == "timestamp" \notin DOMAIN created[id].body

C22_ValidateCoordinates ==
    response.op = "validate_coordinates"
    => LET value     == response.request
           longitude == value[1]
           latitude  == value[2]
           latitudeOk  == -90 <= latitude /\ latitude <= 90
           longitudeOk == -180 <= longitude /\ longitude <= 180
       IN  /\ response.result.ok <=> (latitudeOk /\ longitudeOk)
           /\ response.result.ok
                => /\ response.result.value = value
                   /\ response.message.text = ""
           /\ ~response.result.ok => response.result.error = ValidationError
           /\ ~latitudeOk
                => response.message
                     = Message("Latitude must be between -90 and 90, got ",
                               Some(latitude))
           /\ (latitudeOk /\ ~longitudeOk)
                => response.message
                     = Message("Longitude must be between -180 and 180, got ",
                               Some(longitude))

C22_Witness ==
    /\ response.op = "validate_coordinates"
    /\ response.request = <<181, 91>>
    /\ ~response.result.ok
    /\ response.message.got = Some(91)

(***************************************************************************)
(* C23: given longitude and latitude and no coordinates pair, validate     *)
(* produces coordinates = [longitude, latitude], in that order, and        *)
(* removes the longitude and latitude keys: the validated data is the one  *)
(* of a request that sent the pair [longitude, latitude] itself.           *)
(***************************************************************************)
\* the data with the pair sent in place of the two fields
AsPair(data) ==
    Put(Pop(Pop(data, "longitude"), "latitude"),
        "coordinates", <<data["longitude"], data["latitude"]>>)

C23_FieldsNormalised ==
    (/\ response.op = "validate"
     /\ HasFields(response.request)
     /\ ~HasPair(response.request))
    => /\ response.result.ok
       /\ response.result.value["coordinates"]
            = <<response.request["longitude"], response.request["latitude"]>>
       /\ DOMAIN response.result.value
            = (DOMAIN response.request \ {"longitude", "latitude"})
                 \cup {"coordinates"}
       /\ \A k \in DOMAIN response.request \ {"longitude", "latitude"} :
            response.result.value[k] = response.request[k]
       /\ validate(AsPair(response.request)).ok
       /\ response.result.value = validate(AsPair(response.request)).value

C23_Witness ==
    /\ response.op = "validate"
    /\ DOMAIN response.request = {"longitude", "latitude", "timestamp"}
    /\ response.request["longitude"] = 30
    /\ response.request["latitude"] = 40
    /\ response.result.value["coordinates"] = <<30, 40>>
    /\ DOMAIN response.result.value = {"coordinates", "timestamp"}

(***************************************************************************)
(* C24: the owner of a created record depends on the authenticated caller  *)
(* only: create requests that differ only in the user their body names     *)
(* (or in naming none) store records with the same owner, the caller, or   *)
(* none when the caller is not authenticated.                              *)
(***************************************************************************)
\* the row the request handled last would store with this body
RowOf(body) ==
    create(perform_create(is_valid(body).value, response.request.user),
           response.id, now)

C24_OwnerIgnoresBody ==
    (CreateOk /\ "user" \in DOMAIN response.request.body)
    => /\ CreatedRow.user = response.request.user
       /\ is_valid(Pop(response.request.body, "user")).ok
       /\ RowOf(Pop(response.request.body, "user")) = CreatedRow
       /\ \A v \in Users :
            /\ is_valid(Put(response.request.body, "user", v)).ok
            /\ RowOf(Put(response.request.body, "user", v)) = CreatedRow

C24_Witness ==
    /\ CreateOk
    /\ "user" \in DOMAIN response.request.body
    /\ response.request.body["user"] = 2
    /\ response.request.user = NoUser
    /\ CreatedRow.user = NoUser
    /\ response.data.user = Null

(***************************************************************************)
(* C25: filter_by_distance is idempotent: being the method of each of the  *)
(* filters lat, lng and distance it is applied up to three times in one    *)
(* list request, and applied twice or three times with the same parameters *)
(* it returns the same records, with the same distances, in the same order *)
(* as applied once.                                                        *)
(***************************************************************************)
Once(data)   == filter_by_distance(queryset, data)
Twice(data)  == filter_by_distance(Once(data), data)
Thrice(data) == filter_by_distance(Twice(data), data)

\* equal querysets hold the same rows with the same distances under the
\* same order_by, so they evaluate to the same sequences
C25_FilterIdempotent ==
    ListOk
    => LET once   == Once(response.request)
           twice  == filter_by_distance(once, response.request)
           thrice == filter_by_distance(twice, response.request)
       IN  /\ twice = once
           /\ thrice = once
           /\ DOMAIN response.request = {"lat", "lng", "distance"}
                => /\ DistanceFilter(queryset, response.request) = once
                   /\ ResultIds(response.results)
                        = {row.id : row \in once.rows}
                   /\ \A i \in 1..Len(response.results) :
                        response.results[i] \in once.rows

C25_Witness ==
    /\ ListOk
    /\ DOMAIN response.request = {"lat", "lng", "distance"}
    /\ Cardinality(store) = 2
    /\ Len(response.results) = 1
    /\ response.results[1].distance = 90
    /\ Cardinality(Thrice(response.request).rows) = 1

(***************************************************************************)
(* C26: an update or partial update never changes the stored coordinates   *)
(* of a record: coordinates (or longitude and latitude) sent in an update  *)
(* are not written to the location, and after any sequence of requests the *)
(* coordinates of a record are those it was created with.                  *)
(***************************************************************************)
C26_CoordinatesNeverUpdated ==
    /\ \A row \in store :
          row.location = SubmittedPair(created[row.id].body)
    /\ (response.op = "update" /\ response.status = 200)
         => /\ response.data.id = response.pk
            /\ response.data.coordinates
                 = SubmittedPair(created[response.pk].body)

C26_Witness ==
    /\ response.op = "update"
    /\ response.status = 200
    /\ "timestamp" \in DOMAIN response.request.body
    /\ response.request.body["coordinates"] = <<90, 0>>
    /\ StoredRow(response.pk).location = <<180, 0>>
    /\ StoredRow(response.pk).timestamp = response.request.body["timestamp"]
    /\ response.data.coordinates = <<180, 0>>
====
